---- MODULE Spec2Model ----
(***************************************************************************)
(* The Thermal submodel of pybamm/models/submodels/thermal.py: symbolic    *)
(* assembly of the energy-balance equation of a cell.                      *)
(*                                                                         *)
(* Symbolic expressions are records tagged by "op".  A Python exception    *)
(* raised while a method runs is the value Raise(kind, what); it           *)
(* propagates through every constructor in Python's evaluation order       *)
(* (left operand, right operand, then the operator itself).                *)
(***************************************************************************)
EXTENDS Integers, Sequences, FiniteSets, TLC

VARIABLES
    registry,            \* the shared variable registry (dict name -> expression)
    reactions,           \* the reaction-term structure
    set_of_parameters,   \* the parameter object handed to __init__
    rhs,                 \* self.rhs
    algebraic,           \* self.algebraic
    boundary_conditions, \* self.boundary_conditions
    initial_conditions,  \* self.initial_conditions
    variables,           \* self.variables
    ret,                 \* what the last call returned (NoReturn if it returned nothing)
    error,               \* the exception the last call ended in, or NoError
    lastCall,            \* the last step taken: a method's name, "publish", or "init"
    called,              \* history: the assembly methods called so far
    assembled            \* history: the assembly methods that have succeeded so far

vars == <<registry, reactions, set_of_parameters, rhs, algebraic,
          boundary_conditions, initial_conditions, variables, ret, error,
          lastCall, called, assembled>>

(***************************************************************************)
(* Bounds                                                                  *)
(***************************************************************************)
\* how many field names the registry may lack when the build pass starts
MaxMissing == 1
\* the largest number a parameter or a field takes when a published or
\* registered expression is evaluated
MaxValue == 2

(***************************************************************************)
(* The symbolic algebra (pybamm expression tree), as far as thermal.py     *)
(* uses it.                                                                *)
(***************************************************************************)
None == [op |-> "None"]
Raise(kind, what) == [op |-> "raise", kind |-> kind, what |-> what]
IsRaise(e) == e.op = "raise"
IsNone(e) == e.op = "None"

Variable(name) == [op |-> "var", name |-> name]
Parameter(name) == [op |-> "param", name |-> name]
Scalar(n) == [op |-> "scalar", value |-> n]

\* the first exception among already evaluated operands, else the node;
\* the library's node constructors reject an operand that is not a Symbol
Unary(opname, a) ==
    IF IsRaise(a) THEN a
    ELSE IF IsNone(a) THEN Raise("LibraryError", "NoneType")
    ELSE [op |-> opname, child |-> a]

Binary(opname, a, b) ==
    IF IsRaise(a) THEN a
    ELSE IF IsRaise(b) THEN b
    ELSE IF IsNone(a) \/ IsNone(b) THEN Raise("LibraryError", "NoneType")
    ELSE [op |-> opname, left |-> a, right |-> b]

\* Python's unary minus: None has no __neg__, a TypeError of the interpreter
Neg(a) ==
    IF IsRaise(a) THEN a
    ELSE IF IsNone(a) THEN Raise("TypeError", "NoneType")
    ELSE [op |-> "neg", child |-> a]

Add(a, b) == Binary("add", a, b)
Sub(a, b) == Binary("sub", a, b)
Mul(a, b) == Binary("mul", a, b)
Div(a, b) == Binary("div", a, b)
Pow(a, b) == Binary("pow", a, b)

grad(a) == Unary("grad", a)
div(a) == Unary("div_op", a)
average(a) == Unary("average", a)

boundary_value(a, side) ==
    IF IsRaise(a) THEN a
    ELSE IF IsNone(a) THEN Raise("LibraryError", "NoneType")
    ELSE [op |-> "boundary_value", child |-> a, side |-> side]

Broadcast(a, domain) ==
    IF IsRaise(a) THEN a
    ELSE [op |-> "broadcast", child |-> a, domain |-> domain]

RECURSIVE FirstRaise(_)
FirstRaise(s) ==
    IF s = <<>> THEN None
    ELSE IF IsRaise(Head(s)) THEN Head(s)
    ELSE FirstRaise(Tail(s))

Concatenation(children) ==
    IF FirstRaise(children) # None THEN FirstRaise(children)
    ELSE IF \E i \in 1..Len(children) : IsNone(children[i])
         THEN Raise("LibraryError", "NoneType")
    ELSE [op |-> "concat", children |-> children]

\* .orphans: the ordered sub-domain components of a concatenation; any
\* other node is decomposed into its operands (a leaf has none)
orphans(e) ==
    IF e.op = "concat" THEN e.children
    ELSE IF e.op \in {"var", "param", "scalar"} THEN <<>>
    ELSE IF "child" \in DOMAIN e THEN <<e.child>>
    ELSE <<e.left, e.right>>

\* a functional parameter of the parameter object (dUdT_n, dUdT_p)
FunctionParameter(name, a) ==
    IF IsRaise(a) THEN a
    ELSE IF IsNone(a) THEN Raise("LibraryError", "NoneType")
    ELSE [op |-> "function", name |-> name, child |-> a]

\* dict.get(name): the value, or None for an absent key
Get(d, name) == IF name \in DOMAIN d THEN d[name] ELSE None
\* d[name]: the value, or KeyError(name) for an absent key
Index(d, name) == IF name \in DOMAIN d THEN d[name] ELSE Raise("KeyError", name)

EmptyMap == [k \in {} |-> k]

(***************************************************************************)
(* The parameter object: named symbolic attributes and two closures.       *)
(***************************************************************************)
ParameterNames ==
    {"delta", "B", "C_th", "rho_k", "rho", "lambda_k", "h", "Theta",
     "Delta_T", "T_ref", "T_init", "i_typ", "potential_scale", "L_x"}

StandardParameters == [n \in ParameterNames |-> Parameter(n)]

dUdT_n(param, c_s_n_surf) == FunctionParameter("dUdT_n", c_s_n_surf)
dUdT_p(param, c_s_p_surf) == FunctionParameter("dUdT_p", c_s_p_surf)

(***************************************************************************)
(* Thermal.unpack                                                          *)
(***************************************************************************)
\* the names unpack looks up with variables.get
UnpackNames ==
    {"Negative electrode temperature", "Separator temperature",
     "Positive electrode temperature", "Cell temperature",
     "Negative electrode current density",
     "Positive electrode current density",
     "Negative electrolyte current density",
     "Separator electrolyte current density",
     "Positive electrolyte current density",
     "Negative electrode potential", "Positive electrode potential",
     "Negative electrolyte potential", "Separator electrolyte potential",
     "Positive electrolyte potential",
     "Negative reaction overpotential", "Positive reaction overpotential",
     "Negative particle surface concentration",
     "Positive particle surface concentration"}

Q_ohm_n_of(vs) ==
    Sub(Mul(Neg(Get(vs, "Negative electrode current density")),
            grad(Get(vs, "Negative electrode potential"))),
        Mul(Get(vs, "Negative electrolyte current density"),
            grad(Get(vs, "Negative electrolyte potential"))))

Q_ohm_s_of(vs) ==
    Mul(Neg(Get(vs, "Separator electrolyte current density")),
        grad(Get(vs, "Separator electrolyte potential")))

Q_ohm_p_of(vs) ==
    Sub(Mul(Neg(Get(vs, "Positive electrode current density")),
            grad(Get(vs, "Positive electrode potential"))),
        Mul(Get(vs, "Positive electrolyte current density"),
            grad(Get(vs, "Positive electrolyte potential"))))

Q_ohm_of(vs) ==
    Concatenation(<<Q_ohm_n_of(vs), Q_ohm_s_of(vs), Q_ohm_p_of(vs)>>)

\* mutant: the zero separator piece of Q_rxn is put last
Q_rxn_of_misplaced(vs, rs) ==
    LET j_n == rs["main"]["neg"]["aj"]
        j_p == rs["main"]["pos"]["aj"]
        Q_rxn_n == Mul(j_n, Get(vs, "Negative reaction overpotential"))
        Q_rxn_p == Mul(j_p, Get(vs, "Positive reaction overpotential"))
    IN  Concatenation(<<Q_rxn_n, Q_rxn_p, Broadcast(Scalar(0), "separator")>>)

Q_rxn_of(vs, rs) ==
    LET j_n == rs["main"]["neg"]["aj"]
        j_p == rs["main"]["pos"]["aj"]
        Q_rxn_n == Mul(j_n, Get(vs, "Negative reaction overpotential"))
        Q_rxn_p == Mul(j_p, Get(vs, "Positive reaction overpotential"))
    IN  Concatenation(<<Q_rxn_n, Broadcast(Scalar(0), "separator"), Q_rxn_p>>)

Q_rev_of(param, vs, rs) ==
    LET j_n == rs["main"]["neg"]["aj"]
        j_p == rs["main"]["pos"]["aj"]
        T_n == Get(vs, "Negative electrode temperature")
        T_p == Get(vs, "Positive electrode temperature")
        c_s_n_surf == Get(vs, "Negative particle surface concentration")
        c_s_p_surf == Get(vs, "Positive particle surface concentration")
        Q_rev_n == Mul(Mul(j_n, Add(Pow(param.Theta, Scalar(-1)), T_n)),
                       dUdT_n(param, c_s_n_surf))
        Q_rev_p == Mul(Mul(j_p, Add(Pow(param.Theta, Scalar(-1)), T_p)),
                       dUdT_p(param, c_s_p_surf))
    IN  Concatenation(<<Q_rev_n, Broadcast(Scalar(0), "separator"), Q_rev_p>>)

\* the statements of unpack run in order: the first one that raises ends
\* the call; otherwise the tuple (T_k, Q_ohm, Q_rxn, Q_rev) is returned
unpack(param, vs, rs) ==
    LET T_k == Get(vs, "Cell temperature")
        Q_ohm == Q_ohm_of(vs)
        Q_rxn == Q_rxn_of(vs, rs)
        Q_rev == Q_rev_of(param, vs, rs)
        raised == FirstRaise(<<Q_ohm, Q_rxn, Q_rev>>)
    IN  IF raised # None THEN raised
        ELSE [op |-> "tuple", T_k |-> T_k, Q_ohm |-> Q_ohm,
              Q_rxn |-> Q_rxn, Q_rev |-> Q_rev]

(***************************************************************************)
(* Thermal.get_variables                                                   *)
(***************************************************************************)
PhysicalHeat(param, Q) ==
    Div(Mul(Mul(param.i_typ, param.potential_scale), Q), param.L_x)

\* mutant: the reference temperature is scaled too
Kelvin_scaled_reference(param, T) ==
    Mul(param.Delta_T, Add(T, param.T_ref))

Kelvin(param, T) == Add(Mul(param.Delta_T, T), param.T_ref)

get_variables(param, T_k, q, Q_ohm, Q_rxn, Q_rev) ==
    IF IsNone(T_k) THEN Raise("AttributeError", "orphans")
    ELSE IF Len(orphans(T_k)) # 3 THEN Raise("ValueError", "unpack")
    ELSE
    LET T_n == orphans(T_k)[1]
        T_s == orphans(T_k)[2]
        T_p == orphans(T_k)[3]
        T_k_av == average(T_k)
        published ==
            ("Negative electrode temperature" :> T_n)
         @@ ("Negative electrode temperature [K]" :> Kelvin(param, T_n))
         @@ ("Separator temperature" :> T_s)
         @@ ("Separator temperature [K]" :> Kelvin(param, T_s))
         @@ ("Positive electrode temperature" :> T_p)
         @@ ("Positive electrode temperature [K]" :> Kelvin(param, T_p))
         @@ ("Cell temperature" :> T_k)
         @@ ("Cell temperature [K]" :> Kelvin(param, T_k))
         @@ ("Average cell temperature" :> T_k_av)
         @@ ("Average cell temperature [K]" :> Kelvin(param, T_k_av))
         @@ ("Heat flux" :> q)
         @@ ("Heat flux [W.m-2]" :> q)
         @@ ("Ohmic heating" :> Q_ohm)
         @@ ("Ohmic heating [A.V.m-3]" :> PhysicalHeat(param, Q_ohm))
         @@ ("Irreversible electrochemical heating" :> Q_rxn)
         @@ ("Irreversible electrochemical heating [A.V.m-3]"
                :> PhysicalHeat(param, Q_rxn))
         @@ ("Reversible heating" :> Q_rev)
         @@ ("Reversible heating [A.V.m-3]" :> PhysicalHeat(param, Q_rev))
        raised == FirstRaise(<<T_k_av,
                               published["Negative electrode temperature [K]"],
                               published["Separator temperature [K]"],
                               published["Positive electrode temperature [K]"],
                               published["Cell temperature [K]"],
                               published["Average cell temperature [K]"],
                               published["Ohmic heating [A.V.m-3]"],
                               published["Irreversible electrochemical heating [A.V.m-3]"],
                               published["Reversible heating [A.V.m-3]"]>>)
    IN  IF raised # None THEN raised
        ELSE [op |-> "dict", items |-> published]

(***************************************************************************)
(* Thermal.unpack_post                                                     *)
(***************************************************************************)
PostNames ==
    {"Current collector current density",
     "Positive electrode open circuit potential",
     "Positive reaction overpotential", "Electrolyte potential"}

unpack_post(vs) ==
    LET i_boundary_cc == Index(vs, "Current collector current density")
        ocp_p == Index(vs, "Positive electrode open circuit potential")
        eta_r_p == Index(vs, "Positive reaction overpotential")
        phi_e == Index(vs, "Electrolyte potential")
        looked == FirstRaise(<<i_boundary_cc, ocp_p, eta_r_p, phi_e>>)
    IN  IF looked # None THEN looked
        ELSE IF Len(orphans(phi_e)) < 3 THEN Raise("IndexError", "orphans")
        ELSE [op |-> "tuple_post",
              i_boundary_cc |-> i_boundary_cc,
              ocp_p_av |-> average(ocp_p),
              eta_r_p_av |-> average(eta_r_p),
              phi_e_p_av |-> average(orphans(phi_e)[3])]

(***************************************************************************)
(* The two assembly entry points, as functions from the instance's state   *)
(* to its state after the call.  "self" is the record of the instance's    *)
(* five maps; the result adds the exception the call ended in, if any.     *)
(***************************************************************************)
NoError == [op |-> "ok"]
NoReturn == None

Self(r, a, b, i, v) ==
    [rhs |-> r, algebraic |-> a, boundary_conditions |-> b,
     initial_conditions |-> i, variables |-> v]

Ends(self, exc) == [self |-> self, error |-> exc]

heat_flux(param, T_k) == Mul(Neg(param.lambda_k), grad(T_k))

\* mutant: the lumped density rho in place of rho_k
full_rhs_lumped_density(param, q, Q_ohm, Q_rxn, Q_rev) ==
    Div(Add(Neg(div(q)),
            Mul(Mul(Pow(param.delta, Scalar(2)), param.B),
                Add(Add(Q_ohm, Q_rxn), Q_rev))),
        Mul(Mul(Pow(param.delta, Scalar(2)), param.C_th), param.rho))

full_rhs(param, q, Q_ohm, Q_rxn, Q_rev) ==
    Div(Add(Neg(div(q)),
            Mul(Mul(Pow(param.delta, Scalar(2)), param.B),
                Add(Add(Q_ohm, Q_rxn), Q_rev))),
        Mul(Mul(Pow(param.delta, Scalar(2)), param.C_th), param.rho_k))

\* mutant: the boundary condition is registered as value-specified
full_boundary_dirichlet(param, T_k, side) ==
    <<Div(Mul(param.h, boundary_value(T_k, side)), param.lambda_k),
      "Dirichlet">>

full_boundary(param, T_k, side) ==
    <<Div(Mul(param.h, boundary_value(T_k, side)), param.lambda_k), "Neumann">>

set_full_differential_system(self, param, vs, rs) ==
    LET u == unpack(param, vs, rs)
    IN  IF IsRaise(u) THEN Ends(self, u)
        ELSE
        LET T_k == u.T_k
            q == heat_flux(param, T_k)
            r == full_rhs(param, q, u.Q_ohm, u.Q_rxn, u.Q_rev)
        IN  IF IsRaise(q) THEN Ends(self, q)
            ELSE IF IsRaise(r) THEN Ends(self, r)
            ELSE
            LET bc == [left |-> full_boundary(param, T_k, "left"),
                       right |-> full_boundary(param, T_k, "right")]
                registered == Self(T_k :> r, EmptyMap, T_k :> bc,
                                   T_k :> param.T_init, self.variables)
                gv == get_variables(param, T_k, q, u.Q_ohm, u.Q_rxn, u.Q_rev)
            IN  IF IsRaise(gv) THEN Ends(registered, gv)
                ELSE Ends([registered EXCEPT !.variables = gv.items], NoError)

\* mutant: the reversible heat is left out of the averaged source
lumped_rhs_without_reversible(param, T_k, Q_ohm, Q_rxn, Q_rev) ==
    LET Q == Add(Q_ohm, Q_rxn)
        Q_av == average(Q)
    IN  Div(Sub(Mul(param.B, Q_av),
                Mul(Div(Mul(Scalar(2), param.h), Pow(param.delta, Scalar(2))),
                    T_k)),
            Mul(param.C_th, param.rho))

lumped_rhs(param, T_k, Q_ohm, Q_rxn, Q_rev) ==
    LET Q == Add(Add(Q_ohm, Q_rxn), Q_rev)
        Q_av == average(Q)
    IN  Div(Sub(Mul(param.B, Q_av),
                Mul(Div(Mul(Scalar(2), param.h), Pow(param.delta, Scalar(2))),
                    T_k)),
            Mul(param.C_th, param.rho))

\* mutant: the lumped method also clears the boundary conditions
set_x_lumped_clearing_boundary(self, param, vs, rs) ==
    LET u == unpack(param, vs, rs)
    IN  IF IsRaise(u) THEN Ends(self, u)
        ELSE
        LET r == lumped_rhs(param, u.T_k, u.Q_ohm, u.Q_rxn, u.Q_rev)
        IN  IF IsRaise(r) THEN Ends(self, r)
            ELSE Ends([self EXCEPT !.rhs = u.T_k :> r,
                                   !.boundary_conditions = EmptyMap],
                      NoError)

\* mutant: the lumped method also resets the published variables
set_x_lumped_clearing_variables(self, param, vs, rs) ==
    LET u == unpack(param, vs, rs)
    IN  IF IsRaise(u) THEN Ends(self, u)
        ELSE
        LET r == lumped_rhs(param, u.T_k, u.Q_ohm, u.Q_rxn, u.Q_rev)
        IN  IF IsRaise(r) THEN Ends(self, r)
            ELSE Ends([self EXCEPT !.rhs = u.T_k :> r,
                                   !.variables = EmptyMap],
                      NoError)

set_x_lumped_differential_system(self, param, vs, rs) ==
    LET u == unpack(param, vs, rs)
    IN  IF IsRaise(u) THEN Ends(self, u)
        ELSE
        LET r == lumped_rhs(param, u.T_k, u.Q_ohm, u.Q_rxn, u.Q_rev)
        IN  IF IsRaise(r) THEN Ends(self, r)
            ELSE Ends([self EXCEPT !.rhs = u.T_k :> r], NoError)

(***************************************************************************)
(* The build pass: what the other submodels publish under each name, and   *)
(* the reaction data of the electrochemical submodels.                     *)
(***************************************************************************)
RegistryNames == UnpackNames \cup PostNames

T_n_std == Variable("Negative electrode temperature")
T_s_std == Variable("Separator temperature")
T_p_std == Variable("Positive electrode temperature")

StandardValue(name) ==
    CASE name = "Cell temperature" ->
            Concatenation(<<T_n_std, T_s_std, T_p_std>>)
      [] name = "Electrolyte potential" ->
            Concatenation(<<Variable("Negative electrolyte potential"),
                            Variable("Separator electrolyte potential"),
                            Variable("Positive electrolyte potential")>>)
      [] OTHER -> Variable(name)

RegistryOver(names) == [n \in names |-> StandardValue(n)]

Registries ==
    {RegistryOver(RegistryNames \ missing) :
        missing \in {m \in SUBSET RegistryNames : Cardinality(m) <= MaxMissing}}

ReactionData(j_n, j_p) ==
    [main |-> [neg |-> [aj |-> j_n], pos |-> [aj |-> j_p]]]

ReactionChoices ==
    {ReactionData(j_n, j_p) :
        j_n \in {Scalar(0), Variable("j_n")},
        j_p \in {Scalar(0), Variable("j_p")}}

\* the temperature arguments a direct caller of get_variables may pass: the
\* registry's cell temperature, or an unknown that is not a concatenation
\* (the aggregated cell temperature of the lumped variant)
DirectTemperatures ==
    {Get(registry, "Cell temperature"), Variable("Cell temperature")}

CurrentSelf ==
    Self(rhs, algebraic, boundary_conditions, initial_conditions, variables)

(***************************************************************************)
(* The state machine                                                       *)
(***************************************************************************)
\* the state after Thermal(set_of_parameters): the base class leaves every
\* map empty
Init ==
    /\ registry \in Registries
    /\ reactions \in ReactionChoices
    /\ set_of_parameters = StandardParameters
    /\ rhs = EmptyMap
    /\ algebraic = EmptyMap
    /\ boundary_conditions = EmptyMap
    /\ initial_conditions = EmptyMap
    /\ variables = EmptyMap
    /\ ret = NoReturn
    /\ error = NoError
    /\ lastCall = "init"
    /\ called = {}
    /\ assembled = {}

Returns(name, value) ==
    /\ lastCall' = name
    /\ ret' = IF IsRaise(value) THEN NoReturn ELSE value
    /\ error' = IF IsRaise(value) THEN value ELSE NoError

Installs(name, out) ==
    /\ rhs' = out.self.rhs
    /\ algebraic' = out.self.algebraic
    /\ boundary_conditions' = out.self.boundary_conditions
    /\ initial_conditions' = out.self.initial_conditions
    /\ variables' = out.self.variables
    /\ lastCall' = name
    /\ ret' = NoReturn
    /\ error' = out.error
    /\ called' = called \cup {name}
    /\ assembled' = IF out.error = NoError THEN assembled \cup {name}
                    ELSE assembled

Call_unpack ==
    /\ Returns("unpack", unpack(set_of_parameters, registry, reactions))
    /\ UNCHANGED <<registry, reactions, set_of_parameters, rhs, algebraic,
                   boundary_conditions, initial_conditions, variables,
                   called, assembled>>

Call_unpack_post ==
    /\ Returns("unpack_post", unpack_post(registry))
    /\ UNCHANGED <<registry, reactions, set_of_parameters, rhs, algebraic,
                   boundary_conditions, initial_conditions, variables,
                   called, assembled>>

Call_get_variables ==
    /\ LET u == unpack(set_of_parameters, registry, reactions)
       IN  /\ ~IsRaise(u)
           /\ \E T_k \in DirectTemperatures :
                /\ ~IsNone(T_k)
                /\ Returns("get_variables",
                           get_variables(set_of_parameters, T_k,
                                         heat_flux(set_of_parameters, T_k),
                                         u.Q_ohm, u.Q_rxn, u.Q_rev))
    /\ UNCHANGED <<registry, reactions, set_of_parameters, rhs, algebraic,
                   boundary_conditions, initial_conditions, variables,
                   called, assembled>>

\* mutant: the full method writes what it publishes into the shared registry
Call_set_full_writing_registry ==
    /\ Installs("set_full_differential_system",
                set_full_differential_system(CurrentSelf, set_of_parameters,
                                             registry, reactions))
    /\ registry' = variables' @@ registry
    /\ UNCHANGED <<reactions, set_of_parameters>>

Call_set_full_differential_system ==
    /\ Installs("set_full_differential_system",
                set_full_differential_system(CurrentSelf, set_of_parameters,
                                             registry, reactions))
    /\ UNCHANGED <<registry, reactions, set_of_parameters>>

Call_set_x_lumped_differential_system ==
    /\ Installs("set_x_lumped_differential_system",
                set_x_lumped_differential_system(CurrentSelf,
                                                 set_of_parameters,
                                                 registry, reactions))
    /\ UNCHANGED <<registry, reactions, set_of_parameters>>

\* the outer assembler merges another submodel's output into the registry
Publish ==
    /\ \E name \in RegistryNames \ DOMAIN registry :
            registry' = RegistryOver(DOMAIN registry \cup {name})
    /\ lastCall' = "publish"
    /\ UNCHANGED <<reactions, set_of_parameters, rhs, algebraic,
                   boundary_conditions, initial_conditions, variables, ret,
                   error, called, assembled>>

Next ==
    \/ Call_unpack
    \/ Call_unpack_post
    \/ Call_get_variables
    \/ Call_set_full_differential_system
    \/ Call_set_x_lumped_differential_system
    \/ Publish

Spec == Init /\ [][Next]_vars

(***************************************************************************)
(* Properties.  The expected expressions are written out as plain trees,   *)
(* without the constructors the methods are modelled with.                 *)
(***************************************************************************)
Tree1(opname, a) == [op |-> opname, child |-> a]
Tree2(opname, a, b) == [op |-> opname, left |-> a, right |-> b]
ZeroOverSeparator ==
    [op |-> "broadcast", child |-> [op |-> "scalar", value |-> 0],
     domain |-> "separator"]
P(name) == [op |-> "param", name |-> name]

FullName == "set_full_differential_system"
LumpedName == "set_x_lumped_differential_system"
AssemblyNames == {FullName, LumpedName}
MethodNames == AssemblyNames \cup {"unpack", "unpack_post", "get_variables"}

Succeeded(name) == lastCall = name /\ error = NoError
Registration ==
    <<rhs, algebraic, boundary_conditions, initial_conditions>>
NothingRegistered ==
    /\ rhs = EmptyMap
    /\ algebraic = EmptyMap
    /\ boundary_conditions = EmptyMap
    /\ initial_conditions = EmptyMap

\* the cell-temperature unknown of the current registry
T == registry["Cell temperature"]

HasNeumannBothEnds ==
    /\ DOMAIN boundary_conditions = {T}
    /\ DOMAIN boundary_conditions[T] = {"left", "right"}
    /\ boundary_conditions[T].left[2] = "Neumann"
    /\ boundary_conditions[T].right[2] = "Neumann"

\* C1 as stated: after a successful full call boundary_conditions[T] has a
\* "left" and a "right" entry of kind "Neumann", and after a successful
\* lumped call boundary_conditions has no entries at all.
C1_VariantExclusivity_AsStated ==
    /\ Succeeded(FullName) => HasNeumannBothEnds
    /\ Succeeded(LumpedName) => boundary_conditions = EmptyMap

\* C1 amended: after a successful full call boundary_conditions[T] has a
\* "left" and a "right" entry of kind "Neumann"; a lumped call registers no
\* boundary conditions and leaves boundary_conditions as it was, so after
\* it there are no entries when the full method was never called on the
\* instance.
C1_VariantExclusivity ==
    /\ [](Succeeded(FullName) => HasNeumannBothEnds)
    /\ []((Succeeded(LumpedName) /\ FullName \notin called)
             => boundary_conditions = EmptyMap)
    /\ [][lastCall' = LumpedName
             => boundary_conditions' = boundary_conditions]_vars

C1_Witness ==
    /\ Succeeded(LumpedName)
    /\ FullName \in assembled
    /\ HasNeumannBothEnds

\* C2 as stated: a full call on a registry that lacks a name unpack reads
\* ends in an exception (of whatever class) and leaves rhs, algebraic,
\* boundary_conditions, initial_conditions and variables as they were.
C2_MissingFieldPrecondition ==
    [][(lastCall' = FullName /\ UnpackNames \ DOMAIN registry # {})
         => /\ IsRaise(error')
            /\ Registration' = Registration
            /\ variables' = variables]_vars

\* C3 as stated: after a successful call to either assembly method the keys
\* of rhs and of algebraic are disjoint, and every key of rhs or algebraic
\* is a key of initial_conditions.
C3_UnknownExclusivity ==
    (Succeeded(FullName) \/ Succeeded(LumpedName))
        => /\ DOMAIN rhs \cap DOMAIN algebraic = {}
           /\ (DOMAIN rhs \cup DOMAIN algebraic) \subseteq
                  DOMAIN initial_conditions

\* C4 as stated: once an assembly call has succeeded, no later call changes
\* rhs, algebraic, boundary_conditions or initial_conditions.
C4_WriteOnce_AsStated ==
    [][assembled # {} => Registration' = Registration]_vars

\* C4 amended: the registration state is empty until an assembly method is
\* called, the first successful call populates rhs, and afterwards it
\* changes only in an assembly call: a later full call replaces all four
\* maps, a later lumped call replaces rhs and nothing else.
C4_WriteOnce ==
    /\ [](called = {} => NothingRegistered)
    /\ [](assembled # {} => DOMAIN rhs = {T})
    /\ [][Registration' # Registration => lastCall' \in AssemblyNames]_vars
    /\ [][(lastCall' = LumpedName /\ Registration' # Registration)
            => /\ rhs' # rhs
               /\ algebraic' = algebraic
               /\ boundary_conditions' = boundary_conditions
               /\ initial_conditions' = initial_conditions]_vars

C4_Witness ==
    /\ assembled = AssemblyNames
    /\ Succeeded(LumpedName)
    /\ boundary_conditions # EmptyMap

\* the names of the registry fields and reaction terms each sub-domain's
\* piece may mention
RECURSIVE Leaves(_)
Leaves(e) ==
    IF e.op = "var" THEN {e.name}
    ELSE IF e.op \in {"param", "scalar"} THEN {}
    ELSE IF e.op = "concat"
         THEN UNION {Leaves(e.children[i]) : i \in 1..Len(e.children)}
    ELSE IF "child" \in DOMAIN e THEN Leaves(e.child)
    ELSE Leaves(e.left) \cup Leaves(e.right)

NegativeFields ==
    {"j_n", "Negative electrode temperature",
     "Negative electrode current density",
     "Negative electrolyte current density", "Negative electrode potential",
     "Negative electrolyte potential", "Negative reaction overpotential",
     "Negative particle surface concentration"}
PositiveFields ==
    {"j_p", "Positive electrode temperature",
     "Positive electrode current density",
     "Positive electrolyte current density", "Positive electrode potential",
     "Positive electrolyte potential", "Positive reaction overpotential",
     "Positive particle surface concentration"}
ElectrolytePhaseFields ==
    {"Separator electrolyte current density",
     "Separator electrolyte potential"}

IsPartition(Q) ==
    /\ Q.op = "concat"
    /\ Len(orphans(Q)) = 3
    /\ Leaves(orphans(Q)[1]) \subseteq NegativeFields
    /\ Leaves(orphans(Q)[3]) \subseteq PositiveFields

\* C5: each source unpack returns is a concatenation of three components in
\* the order (negative, separator, positive), each built from the fields of
\* its own sub-domain; the separator component of Q_rxn and of Q_rev is the
\* zero broadcast whatever the reaction current densities are, and the
\* separator component of Q_ohm is the electrolyte-phase term alone.
C5_DomainPartition ==
    Succeeded("unpack")
        => /\ IsPartition(ret.Q_ohm)
           /\ IsPartition(ret.Q_rxn)
           /\ IsPartition(ret.Q_rev)
           /\ orphans(ret.Q_rxn)[2] = ZeroOverSeparator
           /\ orphans(ret.Q_rev)[2] = ZeroOverSeparator
           /\ orphans(ret.Q_rxn)[1] =
                 Tree2("mul", reactions.main.neg.aj,
                       registry["Negative reaction overpotential"])
           /\ orphans(ret.Q_rxn)[3] =
                 Tree2("mul", reactions.main.pos.aj,
                       registry["Positive reaction overpotential"])
           /\ orphans(ret.Q_ohm)[2] =
                 Tree2("mul",
                       Tree1("neg",
                             registry["Separator electrolyte current density"]),
                       Tree1("grad",
                             registry["Separator electrolyte potential"]))
           /\ Leaves(orphans(ret.Q_ohm)[2]) = ElectrolytePhaseFields
           /\ Leaves(orphans(ret.Q_ohm)[1]) =
                 {"Negative electrode current density",
                  "Negative electrode potential",
                  "Negative electrolyte current density",
                  "Negative electrolyte potential"}
           /\ Leaves(orphans(ret.Q_ohm)[3]) =
                 {"Positive electrode current density",
                  "Positive electrode potential",
                  "Positive electrolyte current density",
                  "Positive electrolyte potential"}

C5_Witness ==
    /\ Succeeded("unpack")
    /\ reactions.main.neg.aj # Scalar(0)
    /\ reactions.main.pos.aj # Scalar(0)
    /\ orphans(ret.Q_rxn)[2] = ZeroOverSeparator

\* C9: no method of the submodel changes the shared registry, the reaction
\* structure or the parameter object; every step that changes one of the
\* instance's five maps is an assembly call.
C9_SharedInputFrame ==
    /\ [][lastCall' \in MethodNames
            => /\ registry' = registry
               /\ reactions' = reactions
               /\ set_of_parameters' = set_of_parameters]_vars
    /\ [][(Registration' # Registration \/ variables' # variables)
            => lastCall' \in AssemblyNames]_vars
    /\ [](set_of_parameters = StandardParameters)

C9_Witness ==
    /\ Succeeded(FullName)
    /\ LumpedName \in assembled
    /\ variables # EmptyMap
    /\ DOMAIN registry = RegistryNames

\* C10: a lumped call replaces rhs alone: algebraic, boundary_conditions,
\* initial_conditions and variables keep the value they had before the
\* call, so after a full call followed by a lumped call the Neumann
\* boundary conditions, the initial condition and the published variables
\* of the full variant stand beside the lumped rhs.
C10_LumpedFrame ==
    /\ [][lastCall' = LumpedName
            => /\ algebraic' = algebraic
               /\ boundary_conditions' = boundary_conditions
               /\ initial_conditions' = initial_conditions
               /\ variables' = variables]_vars
    /\ []((Succeeded(LumpedName) /\ FullName \in assembled)
            => /\ HasNeumannBothEnds
               /\ DOMAIN initial_conditions = {T}
               /\ initial_conditions[T] = P("T_init")
               /\ "Heat flux" \in DOMAIN variables
               /\ rhs[T].left.op = "sub"
               /\ rhs[T].left.left.right.op = "average")

C10_Witness ==
    /\ Succeeded(LumpedName)
    /\ FullName \in assembled
    /\ "Cell temperature [K]" \in DOMAIN variables
    /\ rhs[T].left.op = "sub"

(***************************************************************************)
(* The value an expression denotes, as an exact fraction <<n, d>>, once    *)
(* env gives a number to each parameter and to each field it is built      *)
(* from.  Fields are taken constant over the cell, so the average of a     *)
(* field is its value.  An expression env does not cover has no value.     *)
(***************************************************************************)
RatEq(a, b) == a[1] * b[2] = b[1] * a[2]
RatAdd(a, b) == <<a[1] * b[2] + b[1] * a[2], a[2] * b[2]>>
RatNeg(a) == <<0 - a[1], a[2]>>
RatMul(a, b) == <<a[1] * b[1], a[2] * b[2]>>
RatDiv(a, b) == <<a[1] * b[2], a[2] * b[1]>>
RECURSIVE RatPow(_, _)
RatPow(a, k) ==
    IF k = 0 THEN <<1, 1>>
    ELSE IF k < 0 THEN RatPow(<<a[2], a[1]>>, 0 - k)
    ELSE RatMul(a, RatPow(a, k - 1))

RECURSIVE Eval(_, _)
Eval(e, env) ==
    IF e \in DOMAIN env THEN <<env[e], 1>>
    ELSE CASE e.op = "scalar" -> <<e.value, 1>>
           [] e.op = "neg" -> RatNeg(Eval(e.child, env))
           [] e.op = "add" -> RatAdd(Eval(e.left, env), Eval(e.right, env))
           [] e.op = "sub" ->
                 RatAdd(Eval(e.left, env), RatNeg(Eval(e.right, env)))
           [] e.op = "mul" -> RatMul(Eval(e.left, env), Eval(e.right, env))
           [] e.op = "div" -> RatDiv(Eval(e.left, env), Eval(e.right, env))
           [] e.op = "pow" ->
                 RatPow(Eval(e.left, env), Eval(e.right, env)[1])
           [] e.op = "average" -> Eval(e.child, env)

Sources == unpack(set_of_parameters, registry, reactions)

ExpectedFlux ==
    Tree2("mul", Tree1("neg", P("lambda_k")), Tree1("grad", T))

\* the maps get_variables has produced: self.variables once the full
\* method has installed it, and the result of a direct call
PublishedMaps ==
    (IF variables # EmptyMap THEN {variables} ELSE {})
    \cup (IF Succeeded("get_variables") THEN {ret.items} ELSE {})

TemperatureEntries ==
    {<<"Negative electrode temperature",
       "Negative electrode temperature [K]">>,
     <<"Separator temperature", "Separator temperature [K]">>,
     <<"Positive electrode temperature",
       "Positive electrode temperature [K]">>,
     <<"Cell temperature", "Cell temperature [K]">>,
     <<"Average cell temperature", "Average cell temperature [K]">>}

HeatEntries ==
    {<<"Ohmic heating", "Ohmic heating [A.V.m-3]">>,
     <<"Irreversible electrochemical heating",
       "Irreversible electrochemical heating [A.V.m-3]">>,
     <<"Reversible heating", "Reversible heating [A.V.m-3]">>}

KelvinLaw(pm, entry) ==
    /\ pm[entry[2]] =
          Tree2("add", Tree2("mul", P("Delta_T"), pm[entry[1]]), P("T_ref"))
    /\ \A Delta_T \in 0..MaxValue, T_ref \in 0..MaxValue, x \in -1..MaxValue :
          Eval(pm[entry[2]],
               (P("Delta_T") :> Delta_T) @@ (P("T_ref") :> T_ref)
                 @@ (pm[entry[1]] :> x))
            = <<Delta_T * x + T_ref, 1>>

HeatLaw(pm, entry) ==
    \A i_typ \in 0..MaxValue, potential_scale \in 1..MaxValue,
       L_x \in 1..MaxValue, x \in -1..MaxValue :
          RatEq(Eval(pm[entry[2]],
                     (P("i_typ") :> i_typ)
                       @@ (P("potential_scale") :> potential_scale)
                       @@ (P("L_x") :> L_x) @@ (pm[entry[1]] :> x)),
                RatMul(RatDiv(<<i_typ * potential_scale, 1>>, <<L_x, 1>>),
                       <<x, 1>>))

\* C6: in every map get_variables produces, each "[K]" entry is
\* Delta_T * dimensionless + T_ref and each "[A.V.m-3]" entry has the value
\* i_typ * potential_scale / L_x * dimensionless, for all parameter values
\* (Delta_T = 0 and i_typ = 0 among them); each dimensionless entry is the
\* expression that was passed in (the component of T_k, T_k, its average,
\* q, a heat source).
C6_ScalingLaw ==
    \A pm \in PublishedMaps :
        /\ DOMAIN pm = {entry[i] : entry \in TemperatureEntries
                                              \cup HeatEntries, i \in {1, 2}}
                          \cup {"Heat flux", "Heat flux [W.m-2]"}
        /\ \A entry \in TemperatureEntries : KelvinLaw(pm, entry)
        /\ \A entry \in HeatEntries : HeatLaw(pm, entry)
        /\ pm["Cell temperature"] = T
        /\ pm["Negative electrode temperature"] =
              [op |-> "var", name |-> "Negative electrode temperature"]
        /\ pm["Separator temperature"] =
              [op |-> "var", name |-> "Separator temperature"]
        /\ pm["Positive electrode temperature"] =
              [op |-> "var", name |-> "Positive electrode temperature"]
        /\ pm["Average cell temperature"] = Tree1("average", T)
        /\ pm["Heat flux"] = ExpectedFlux
        /\ pm["Heat flux [W.m-2]"] = ExpectedFlux
        /\ pm["Ohmic heating"] = Sources.Q_ohm
        /\ pm["Irreversible electrochemical heating"] = Sources.Q_rxn
        /\ pm["Reversible heating"] = Sources.Q_rev

C6_Witness ==
    /\ Succeeded("get_variables")
    /\ Eval(ret.items["Cell temperature [K]"],
            (P("Delta_T") :> 0) @@ (P("T_ref") :> 1) @@ (T :> 2)) = <<1, 1>>
    /\ RatEq(Eval(ret.items["Ohmic heating [A.V.m-3]"],
                  (P("i_typ") :> 0) @@ (P("potential_scale") :> 1)
                    @@ (P("L_x") :> 2) @@ (Sources.Q_ohm :> 2)),
             <<0, 1>>)

SourceSum ==
    Tree2("add", Tree2("add", Sources.Q_ohm, Sources.Q_rxn), Sources.Q_rev)

DeltaSquared == Tree2("pow", P("delta"), [op |-> "scalar", value |-> 2])

ExpectedFullRhs ==
    Tree2("div",
          Tree2("add",
                Tree1("neg", Tree1("div_op", ExpectedFlux)),
                Tree2("mul", Tree2("mul", DeltaSquared, P("B")), SourceSum)),
          Tree2("mul", Tree2("mul", DeltaSquared, P("C_th")), P("rho_k")))

ExpectedBoundary(side) ==
    <<Tree2("div",
            Tree2("mul", P("h"),
                  [op |-> "boundary_value", child |-> T, side |-> side]),
            P("lambda_k")),
      "Neumann">>

\* C7: after a successful full call rhs is exactly
\* {T: (-div(q) + delta^2 * B * (Q_ohm + Q_rxn + Q_rev))
\*        / (delta^2 * C_th * rho_k)} with q = -lambda_k * grad(T),
\* algebraic is empty, initial_conditions is {T: T_init}, the boundary
\* values are h * boundary_value(T, side) / lambda_k, and variables is
\* what get_variables returns for the same T, q and sources.
C7_FullRegistration ==
    Succeeded(FullName)
        => /\ DOMAIN rhs = {T}
           /\ rhs[T] = ExpectedFullRhs
           /\ algebraic = EmptyMap
           /\ DOMAIN initial_conditions = {T}
           /\ initial_conditions[T] = P("T_init")
           /\ DOMAIN boundary_conditions = {T}
           /\ boundary_conditions[T] =
                 [left |-> ExpectedBoundary("left"),
                  right |-> ExpectedBoundary("right")]
           /\ variables =
                 get_variables(set_of_parameters, T, ExpectedFlux,
                               Sources.Q_ohm, Sources.Q_rxn,
                               Sources.Q_rev).items

C7_Witness ==
    /\ Succeeded(FullName)
    /\ rhs[T].op = "div"
    /\ reactions.main.neg.aj # Scalar(0)
    /\ "Separator temperature" \in DOMAIN registry

ExpectedLumpedRhs ==
    Tree2("div",
          Tree2("sub",
                Tree2("mul", P("B"), Tree1("average", SourceSum)),
                Tree2("mul",
                      Tree2("div",
                            Tree2("mul", [op |-> "scalar", value |-> 2],
                                  P("h")),
                            DeltaSquared),
                      T)),
          Tree2("mul", P("C_th"), P("rho")))

\* the value of the registered rhs when each of the three sources is the
\* constant field one and the parameters and T have the given values
LumpedValue(B, h, delta, C_th, rho, t) ==
    Eval(rhs[T],
         (P("B") :> B) @@ (P("h") :> h) @@ (P("delta") :> delta)
           @@ (P("C_th") :> C_th) @@ (P("rho") :> rho) @@ (T :> t)
           @@ (Sources.Q_ohm :> 1) @@ (Sources.Q_rxn :> 1)
           @@ (Sources.Q_rev :> 1))

\* (B * c - 2h / delta^2 * t) / (C_th * rho)
RelaxationForm(c, B, h, delta, C_th, rho, t) ==
    RatDiv(RatAdd(<<B * c, 1>>,
                  RatNeg(RatMul(<<2 * h, delta * delta>>, <<t, 1>>))),
           <<C_th * rho, 1>>)

LumpedStructure ==
    /\ DOMAIN rhs = {T}
    /\ rhs[T] = ExpectedLumpedRhs
    /\ FullName \in assembled
          => /\ variables["Ohmic heating"] = Sources.Q_ohm
             /\ variables["Irreversible electrochemical heating"]
                   = Sources.Q_rxn
             /\ variables["Reversible heating"] = Sources.Q_rev

ReducesTo(c) ==
    \A B \in 0..MaxValue, h \in 0..MaxValue, delta \in 1..MaxValue,
       C_th \in 1..MaxValue, rho \in 1..MaxValue, t \in 0..MaxValue :
          RatEq(LumpedValue(B, h, delta, C_th, rho, t),
                RelaxationForm(c, B, h, delta, C_th, rho, t))

\* C8 as stated: after a successful lumped call rhs is exactly
\* {T: (B * average(Q_ohm + Q_rxn + Q_rev) - 2h/delta^2 * T) / (C_th * rho)}
\* over the sources unpack returns, and with each source the constant
\* field 1 its value is (B * 1 - 2h/delta^2 * T) / (C_th * rho).
C8_LumpedRegistration_AsStated ==
    Succeeded(LumpedName) => (LumpedStructure /\ ReducesTo(1))

\* C8 amended: after a successful lumped call rhs is exactly
\* {T: (B * average(Q_ohm + Q_rxn + Q_rev) - 2h/delta^2 * T) / (C_th * rho)}
\* over the sources unpack returns (those the full variant publishes), and
\* with each source the constant field 1 the averaged sum is 3, so its
\* value is (B * 3 - 2h/delta^2 * T) / (C_th * rho).
C8_LumpedRegistration ==
    Succeeded(LumpedName) => (LumpedStructure /\ ReducesTo(3))

C8_Witness ==
    /\ Succeeded(LumpedName)
    /\ FullName \in assembled
    /\ RatEq(LumpedValue(1, 1, 1, 1, 1, 1), <<1, 1>>)

====
